---- MODULE Spec2Model ----
(***************************************************************************)
(* Run orchestration and promotion engine of ml/automation.py.             *)
(*                                                                         *)
(* Each run is one call of run_pipeline; runs may execute concurrently     *)
(* (FastAPI worker threads, scheduler, calendar watcher, CLI processes)    *)
(* and share the artifacts directory: runs/<run_id>/, production/ and      *)
(* latest_run.json.  One action models one statement of run_pipeline or    *)
(* maybe_promote; file writes are the granularity of interleaving.         *)
(*                                                                         *)
(* Accuracies and thresholds are percentages (0.85 is 85, the sentinel     *)
(* -1.0 is -1).  Strings are sequences of character codes, so that the     *)
(* lexicographic order of run identifiers is the order of the code.        *)
(* Timestamps that are only written and never read back (promoted_at,      *)
(* created_at) are not part of the records.                                *)
(***************************************************************************)
EXTENDS Integers, Sequences, FiniteSets, TLC

\* ------------------------------------------------------------------ bounds
NumRuns == 2
StartClock == 3598
MaxTicks == 2
NumSuffixes == 2

\* ------------------------------------------------------- program constants
SuffixLen == 8
NoPreviousAccuracy == -1

Runs == 1..NumRuns
Accuracies == {80, 90, 95}
Thresholds == {85}

VARIABLES
    now,            \* wall clock, seconds since midnight (datetime.now)
    pc,             \* pc[r]: the statement run r executes next
    runId,          \* run_id of run_pipeline
    allocatedAt,    \* the clock reading make_run_id took for runId[r]
    metrics,        \* metrics["accuracy"] of run_pipeline
    promotion,      \* the record maybe_promote builds and returns
    written,        \* written[r]: the files run r has written, in order
    dirs,           \* directories that exist under base_dir
    prodModel,      \* production/model.joblib: the run whose model it holds
    prodMetrics,    \* production/metrics.json
    latestRun,      \* latest_run.json
    lastDecisionAcc, \* accuracy read back from production/metrics.json after
                    \* the decision that returned last
    wpc,            \* the statement run_calendar_watch executes next
    seen_ids,       \* seen_ids of run_calendar_watch
    calendarState,  \* .calendar_state.json
    pollNow,        \* now of the poll cycle (datetime.now(timezone.utc))
    idx,            \* position of the for loop in events; 0 outside the loop
    triggeredBy,    \* triggeredBy[r]: uid of the event whose poll called run r
    http,           \* the POST /train request handled last and its outcome
    base,           \* base of deep_merge
    override,       \* override of deep_merge
    out,            \* what deep_merge(base, override) returned
    again,          \* what deep_merge(out, override) returned
    config,         \* config of train_model: model.type and the hpo section
    trained,        \* how the call of train_model ended, grid and the report
    heap,           \* the mappings in memory: heap[a] is the object at address a
    resolved        \* resolved[r]: the configuration load_config returned for run r

pipelineVars == <<now, pc, runId, allocatedAt, metrics, promotion, written, dirs,
                  prodModel, prodMetrics, latestRun, lastDecisionAcc>>
watchVars == <<wpc, seen_ids, calendarState, pollNow, idx, triggeredBy>>
apiVars == <<http>>
mergeVars == <<base, override, out, again>>
trainVars == <<config, trained>>
configVars == <<heap, resolved>>

\* What the statements of run_pipeline and maybe_promote leave alone.
envVars == <<watchVars, apiVars, mergeVars, trainVars, configVars>>

vars == <<pipelineVars, watchVars, apiVars, mergeVars, trainVars, configVars>>

\* A local that is not bound yet.
NoMetrics == 0
NoPromotion ==
    [promoted |-> FALSE, threshold |-> 0, previous_accuracy |-> 0, current_accuracy |-> 0]
\* No identifier, and the content of a file that does not exist.
NoId == <<>>
NoFile == <<>>

\* latest_run.json: absent, opened for writing and still empty, or the
\* JSON object written last.
LatestFile(state, summary) == [state |-> state, summary |-> summary]

\* production/metrics.json: absent, opened for writing and still empty, or
\* the JSON object written last.
MetricsFile(state, accuracy, run_id) ==
    [state |-> state, accuracy |-> accuracy, run_id |-> run_id]
Absent == MetricsFile("absent", 0, NoId)
Truncated == MetricsFile("truncated", 0, NoId)

\* ------------------------------------------------------------ run identity
Dash == 45
Digit(d) == 48 + d
HexDigit(d) == IF d < 10 THEN 48 + d ELSE 87 + d

\* "%02d"
Pad2(n) == <<Digit(n \div 10), Digit(n % 10)>>

\* "%Y%m%d" of the day the clock counts the seconds of
DateStamp == <<Digit(2), Digit(0), Digit(2), Digit(6), Digit(1), Digit(1), Digit(0), Digit(4)>>

StrftimeSwapped(t) ==
    DateStamp \o <<Dash>> \o Pad2(t % 60) \o Pad2((t \div 60) % 60) \o Pad2(t \div 3600)

StrftimeNoSeconds(t) ==
    DateStamp \o <<Dash>> \o Pad2(t \div 3600) \o Pad2((t \div 60) % 60)

\* strftime("%Y%m%d-%H%M%S")
Strftime(t) ==
    DateStamp \o <<Dash>> \o Pad2(t \div 3600) \o Pad2((t \div 60) % 60) \o Pad2(t % 60)

\* uuid.uuid4().hex[:8] for the random value k
RECURSIVE HexOf(_, _)
HexOf(k, len) ==
    IF len = 0 THEN <<>> ELSE HexOf(k \div 16, len - 1) \o <<HexDigit(k % 16)>>

UuidHex8(k) == HexOf(k, SuffixLen)

\* f"{stamp}-{uuid.uuid4().hex[:8]}"
make_run_id(t, k) == Strftime(t) \o <<Dash>> \o UuidHex8(k)

\* str.__lt__: the order of Python strings
LexLess(a, b) ==
    \E i \in 1..(Len(b)) :
        /\ \A j \in 1..(i - 1) : j <= Len(a) /\ a[j] = b[j]
        /\ \/ i > Len(a)
           \/ i <= Len(a) /\ a[i] < b[i]

\* --------------------------------------------------------------- artifacts
\* A location under base_dir: <dir>/<id>/<name>; id is <<>> outside runs/.
Path(dir, id, name) == [dir |-> dir, id |-> id, name |-> name]

\* run_dir = base_dir / "runs" / run_id
RunDir(id) == Path("runs", id, "")
RunFile(id, name) == Path("runs", id, name)
\* production_dir = base_dir / "production"
ProductionDir == Path("production", <<>>, "")
ProductionModel == Path("production", <<>>, "model.joblib")
ProductionMetrics == Path("production", <<>>, "metrics.json")
LatestRunFile == Path("latest_run.json", <<>>, "")

\* The files the statements of run_pipeline write under run_dir, in order.
SnapshotFiles(id) ==
    <<RunFile(id, "preprocessed/train.csv"), RunFile(id, "preprocessed/test.csv")>>
PersistFiles(id) ==
    <<RunFile(id, "model.joblib"), RunFile(id, "metrics.json"), RunFile(id, "hpo.json")>>
SummaryFiles(id) ==
    <<RunFile(id, "summary.json"), RunFile(id, "summary.md")>>

\* The files run r has written.
Written(r) == {written[r][i] : i \in DOMAIN written[r]}

\* Run r writes the files of the sequence paths, one after the other.
Write(r, paths) == written' = [written EXCEPT ![r] = @ \o paths]

\* float(previous_metrics.get("accuracy", -1.0)) of read_json(prod_metrics_path)
PreviousAccuracy(file) ==
    IF file.state = "absent" THEN NoPreviousAccuracy ELSE file.accuracy

PromoteThresholdOnly(current, threshold, previous) ==
    current >= threshold

PromoteStrictlyBetter(current, threshold, previous) ==
    current >= threshold /\ current > previous

\* promote = current_accuracy >= threshold and current_accuracy >= previous_accuracy
Promote(current, threshold, previous) ==
    current >= threshold /\ current >= previous

\* ------------------------------------------------------------------- state
InitPipeline ==
    /\ now = StartClock
    /\ pc = [r \in Runs |-> "idle"]
    /\ runId = [r \in Runs |-> NoId]
    /\ allocatedAt = [r \in Runs |-> 0]
    /\ metrics = [r \in Runs |-> NoMetrics]
    /\ promotion = [r \in Runs |-> NoPromotion]
    /\ written = [r \in Runs |-> <<>>]
    /\ dirs = {}
    /\ prodModel = NoFile
    /\ prodMetrics = Absent
    /\ latestRun = LatestFile("absent", <<>>)
    /\ lastDecisionAcc = NoPreviousAccuracy

Goto(r, label) == pc' = [pc EXCEPT ![r] = label]

\* The wall clock advances; it is read by make_run_id only.
Tick ==
    /\ now < StartClock + MaxTicks
    /\ \E r \in Runs : pc[r] = "idle"
    /\ now' = now + 1
    /\ UNCHANGED <<pc, runId, allocatedAt, metrics, promotion, written, dirs, prodModel,
                   prodMetrics, latestRun, lastDecisionAcc>>
    /\ UNCHANGED envVars

\* ------------------------------------------------------------ run_pipeline
\* run_id = make_run_id(); run_dir = base_dir / "runs" / run_id
\* (runs are numbered in the order in which they allocate their identifier)
StartRun(r) ==
    /\ pc[r] = "idle"
    /\ r > 1 => pc[r - 1] # "idle"
    /\ \E k \in 0..(NumSuffixes - 1) :
           runId' = [runId EXCEPT ![r] = make_run_id(now, k)]
    /\ allocatedAt' = [allocatedAt EXCEPT ![r] = now]
    /\ Goto(r, "ensure_dir")
    /\ UNCHANGED <<now, metrics, promotion, written, dirs, prodModel,
                   prodMetrics, latestRun, lastDecisionAcc>>

EnsureRunDirSkipped(r) ==
    /\ pc[r] = "ensure_dir"
    /\ Goto(r, "load_dataset")
    /\ UNCHANGED <<now, runId, allocatedAt, metrics, promotion, written, dirs,
                   prodModel, prodMetrics, latestRun, lastDecisionAcc>>
    /\ UNCHANGED envVars

\* ensure_dir(run_dir)
EnsureRunDir(r) ==
    /\ pc[r] = "ensure_dir"
    /\ dirs' = dirs \cup {RunDir(runId[r])}
    /\ Goto(r, "load_dataset")
    /\ UNCHANGED <<now, runId, allocatedAt, metrics, promotion, written, prodModel,
                   prodMetrics, latestRun, lastDecisionAcc>>
    /\ UNCHANGED envVars

\* X, y = load_dataset(config); ... = split_dataset(X, y, config)
LoadDataset(r) ==
    /\ pc[r] = "load_dataset"
    /\ Goto(r, "snapshot")
    /\ UNCHANGED <<now, runId, allocatedAt, metrics, promotion, written, dirs, prodModel,
                   prodMetrics, latestRun, lastDecisionAcc>>
    /\ UNCHANGED envVars

SavePreprocessSnapshotShared(r) ==
    /\ pc[r] = "snapshot"
    /\ Write(r, <<Path("preprocessed", <<>>, "train.csv"),
                  Path("preprocessed", <<>>, "test.csv")>>)
    /\ Goto(r, "train")
    /\ UNCHANGED <<now, runId, allocatedAt, metrics, promotion, dirs, prodModel,
                   prodMetrics, latestRun, lastDecisionAcc>>
    /\ UNCHANGED envVars

\* preprocess_report = save_preprocess_snapshot(..., run_dir)
SavePreprocessSnapshot(r) ==
    /\ pc[r] = "snapshot"
    /\ Write(r, SnapshotFiles(runId[r]))
    /\ Goto(r, "train")
    /\ UNCHANGED <<now, runId, allocatedAt, metrics, promotion, dirs, prodModel,
                   prodMetrics, latestRun, lastDecisionAcc>>
    /\ UNCHANGED envVars

\* model, hpo_report = train_model(X_train, y_train, config)
TrainModel(r) ==
    /\ pc[r] = "train"
    /\ Goto(r, "evaluate")
    /\ UNCHANGED <<now, runId, allocatedAt, metrics, promotion, written, dirs, prodModel,
                   prodMetrics, latestRun, lastDecisionAcc>>
    /\ UNCHANGED envVars

EvaluateModelThenPromote(r) ==
    /\ pc[r] = "evaluate"
    /\ \E a \in Accuracies : metrics' = [metrics EXCEPT ![r] = a]
    /\ Goto(r, "maybe_promote")
    /\ UNCHANGED <<now, runId, allocatedAt, promotion, written, dirs, prodModel,
                   prodMetrics, latestRun, lastDecisionAcc>>
    /\ UNCHANGED envVars

\* metrics = evaluate_model(model, X_test, y_test)
EvaluateModel(r) ==
    /\ pc[r] = "evaluate"
    /\ \E a \in Accuracies : metrics' = [metrics EXCEPT ![r] = a]
    /\ Goto(r, "persist")
    /\ UNCHANGED <<now, runId, allocatedAt, promotion, written, dirs, prodModel,
                   prodMetrics, latestRun, lastDecisionAcc>>
    /\ UNCHANGED envVars

\* model_path = run_dir / "model.joblib"; joblib.dump(model, model_path)
\* write_json(run_dir / "metrics.json", metrics)
\* write_json(run_dir / "hpo.json", hpo_report)
PersistRun(r) ==
    /\ pc[r] = "persist"
    /\ Write(r, PersistFiles(runId[r]))
    /\ Goto(r, "maybe_promote")
    /\ UNCHANGED <<now, runId, allocatedAt, metrics, promotion, dirs, prodModel,
                   prodMetrics, latestRun, lastDecisionAcc>>
    /\ UNCHANGED envVars

\* ----------------------------------------------------------- maybe_promote
\* production_dir = base_dir / "production"; ensure_dir(production_dir)
EnsureProductionDir(r) ==
    /\ pc[r] = "maybe_promote"
    /\ dirs' = dirs \cup {ProductionDir}
    /\ Goto(r, "read_previous")
    /\ UNCHANGED <<now, runId, allocatedAt, metrics, promotion, written, prodModel,
                   prodMetrics, latestRun, lastDecisionAcc>>
    /\ UNCHANGED envVars

\* The record maybe_promote returns.
PromotionRecord(current, threshold, previous) ==
    [promoted |-> Promote(current, threshold, previous),
     threshold |-> threshold,
     previous_accuracy |-> previous,
     current_accuracy |-> current]

\* out_metrics = dict(metrics) plus run_id (and promoted_at)
OutMetrics(r) == MetricsFile("json", metrics[r], runId[r])

ReadAndDecideWritesFirst(r) ==
    /\ pc[r] = "read_previous"
    /\ prodMetrics.state # "truncated"
    /\ \E th \in Thresholds :
           LET rec == PromotionRecord(metrics[r], th, PreviousAccuracy(prodMetrics))
           IN  /\ promotion' = [promotion EXCEPT ![r] = rec]
               /\ prodMetrics' = OutMetrics(r)
               /\ Write(r, <<ProductionMetrics>>)
               /\ Goto(r, "write_summary")
               /\ lastDecisionAcc' = metrics[r]
    /\ UNCHANGED <<now, runId, allocatedAt, metrics, dirs, prodModel, latestRun>>
    /\ UNCHANGED envVars

\* threshold = ...; previous_metrics = read_json(prod_metrics_path); ...;
\* promote = ...; promotion = {...}; if not promote: return promotion
\* json.load of a file another run has opened for writing and not yet
\* closed raises, and the run fails.
ReadAndDecide(r) ==
    /\ pc[r] = "read_previous"
    /\ IF prodMetrics.state = "truncated"
       THEN /\ Goto(r, "failed")
            /\ metrics' = [metrics EXCEPT ![r] = NoMetrics]
            /\ UNCHANGED <<promotion, lastDecisionAcc>>
       ELSE \E th \in Thresholds :
            LET rec == PromotionRecord(metrics[r], th, PreviousAccuracy(prodMetrics))
            IN  /\ promotion' = [promotion EXCEPT ![r] = rec]
                /\ IF rec.promoted
                   THEN /\ Goto(r, "copy_model")
                        /\ UNCHANGED lastDecisionAcc
                   ELSE /\ Goto(r, "write_summary")
                        /\ lastDecisionAcc' = PreviousAccuracy(prodMetrics)
                /\ UNCHANGED metrics
    /\ UNCHANGED <<now, runId, allocatedAt, written, dirs, prodModel, prodMetrics, latestRun>>
    /\ UNCHANGED envVars

\* shutil.copy2(model_path, production_dir / "model.joblib")
CopyModel(r) ==
    /\ pc[r] = "copy_model"
    /\ prodModel' = runId[r]
    /\ Write(r, <<ProductionModel>>)
    /\ Goto(r, "open_prod_metrics")
    /\ UNCHANGED <<now, runId, allocatedAt, metrics, promotion, dirs, prodMetrics,
                   latestRun, lastDecisionAcc>>
    /\ UNCHANGED envVars

\* write_json(prod_metrics_path, out_metrics): path.open("w") truncates
OpenProdMetrics(r) ==
    /\ pc[r] = "open_prod_metrics"
    /\ prodMetrics' = Truncated
    /\ Write(r, <<ProductionMetrics>>)
    /\ Goto(r, "dump_prod_metrics")
    /\ UNCHANGED <<now, runId, allocatedAt, metrics, promotion, dirs, prodModel,
                   latestRun, lastDecisionAcc>>
    /\ UNCHANGED envVars

\* json.dump(payload, f) and the close of the file; return promotion
DumpProdMetrics(r) ==
    /\ pc[r] = "dump_prod_metrics"
    /\ prodMetrics' = OutMetrics(r)
    /\ lastDecisionAcc' = PreviousAccuracy(prodMetrics')
    /\ Goto(r, "write_summary")
    /\ UNCHANGED <<now, runId, allocatedAt, metrics, promotion, written, dirs, prodModel,
                   latestRun>>
    /\ UNCHANGED envVars

\* ------------------------------------------------- run_pipeline, continued
\* run_summary = {...}
RunSummary(r) ==
    [run_id |-> runId[r], accuracy |-> metrics[r], promotion |-> promotion[r]]

\* write_json(run_dir / "summary.json", run_summary)
\* write_summary_markdown(run_dir / "summary.md", run_summary)
WriteSummary(r) ==
    /\ pc[r] = "write_summary"
    /\ Write(r, SummaryFiles(runId[r]))
    /\ Goto(r, "write_latest")
    /\ UNCHANGED <<now, runId, allocatedAt, metrics, promotion, dirs, prodModel,
                   prodMetrics, latestRun, lastDecisionAcc>>
    /\ UNCHANGED envVars

\* write_json(base_dir / "latest_run.json", run_summary); return run_summary
WriteLatestRun(r) ==
    /\ pc[r] = "write_latest"
    /\ latestRun' = LatestFile("json", <<RunSummary(r)>>)
    /\ Write(r, <<LatestRunFile>>)
    /\ Goto(r, "done")
    /\ UNCHANGED <<now, runId, allocatedAt, metrics, promotion, dirs, prodModel,
                   prodMetrics, lastDecisionAcc>>
    /\ UNCHANGED envVars

AbortAndCleanUp(r) ==
    /\ pc[r] \notin {"idle", "done", "failed"}
    /\ written' = [written EXCEPT ![r] = <<>>]
    /\ dirs' = dirs \ {RunDir(runId[r])}
    /\ Goto(r, "failed")
    /\ metrics' = [metrics EXCEPT ![r] = NoMetrics]
    /\ promotion' = [promotion EXCEPT ![r] = NoPromotion]
    /\ UNCHANGED <<now, runId, allocatedAt, prodModel, prodMetrics, latestRun,
                   lastDecisionAcc>>

\* A statement raises: the exception leaves run_pipeline, its locals are
\* gone, and what the run has written stays on disk.  A statement that
\* writes several files may have written the first of them, and write_json
\* may have opened (and so emptied) its file without filling it.
Running(r) == pc[r] \notin {"idle", "done", "failed"}

FilesOfStatement(r) ==
    CASE pc[r] = "snapshot" -> SnapshotFiles(runId[r])
      [] pc[r] = "persist" -> PersistFiles(runId[r])
      [] pc[r] = "write_summary" -> SummaryFiles(runId[r])
      [] OTHER -> <<>>

Abort(r) ==
    /\ Running(r)
    /\ \E k \in 0..Len(FilesOfStatement(r)) :
           /\ k = 0 \/ k < Len(FilesOfStatement(r))
           /\ Write(r, SubSeq(FilesOfStatement(r), 1, k))
    /\ Goto(r, "failed")
    /\ metrics' = [metrics EXCEPT ![r] = NoMetrics]
    /\ promotion' = [promotion EXCEPT ![r] = NoPromotion]
    /\ \/ latestRun' = latestRun
       \/ pc[r] = "write_latest" /\ latestRun' = LatestFile("truncated", <<>>)
    /\ UNCHANGED <<now, runId, allocatedAt, dirs, prodModel, prodMetrics,
                   lastDecisionAcc>>

\* An exception raised inside run_pipeline that no caller of the model
\* handles: the commands of main() and the scheduler job.
Fail(r) ==
    /\ Abort(r)
    /\ UNCHANGED envVars

\* main(): run_pipeline(config, reason="train" | "pipeline"), and the job of
\* run_schedule: run_pipeline(cfg, reason="scheduled")
InvokeRun(r) ==
    /\ StartRun(r)
    /\ UNCHANGED envVars

\* ------------------------------------------------------------- POST /train
Space == 32
\* "Bearer "
Bearer == <<66, 101, 97, 114, 101, 114, Space>>

\* str.startswith
StartsWith(s, prefix) ==
    Len(s) >= Len(prefix) /\ SubSeq(s, 1, Len(prefix)) = prefix

\* str.strip, for the blank
RECURSIVE LStrip(_)
LStrip(s) == IF s # <<>> /\ Head(s) = Space THEN LStrip(Tail(s)) ELSE s

RECURSIVE RStrip(_)
RStrip(s) ==
    IF s # <<>> /\ s[Len(s)] = Space THEN RStrip(SubSeq(s, 1, Len(s) - 1)) ELSE s

Strip(s) == RStrip(LStrip(s))

\* s.split(" ", 1)[1] of a string that holds a blank
RECURSIVE AfterFirstSpace(_)
AfterFirstSpace(s) == IF Head(s) = Space THEN Tail(s) ELSE AfterFirstSpace(Tail(s))

\* The Authorization header of a request: Header(default=None)
HeaderValue(present, value) == [present |-> present, value |-> value]
NoHeader == HeaderValue(FALSE, <<>>)

\* ""; "t"; "Bearer t", "Bearer u", "Bearer  t " (blanks around the token),
\* "bearer t"; "Basic t"; "Bearer" and no header at all.
Authorizations ==
    {NoHeader} \cup
    {HeaderValue(TRUE, v) :
        v \in {<<>>, <<116>>, Bearer \o <<116>>, Bearer \o <<117>>,
               Bearer \o <<Space, 116, Space>>,
               <<98, 101, 97, 114, 101, 114, Space, 116>>,
               <<66, 97, 115, 105, 99, Space, 116>>,
               <<66, 101, 97, 114, 101, 114>>}}

\* api.bearer_token of the configuration: "" (the default), "t", " t ", " "
ConfiguredTokens == {<<>>, <<116>>, <<Space, 116, Space>>, <<Space>>}

\* What authorize does: it returns, or raises HTTPException(status_code).
Returns == 0
Unauthorized == 401
Forbidden == 403

authorizeAnyBearer(authorization, token_required) ==
    IF token_required = <<>> THEN Returns
    ELSE IF ~authorization.present \/ authorization.value = <<>> THEN Unauthorized
    ELSE IF ~StartsWith(authorization.value, Bearer) THEN Unauthorized
    ELSE Returns

authorize(authorization, token_required) ==
    IF token_required = <<>> THEN Returns
    ELSE IF ~authorization.present \/ authorization.value = <<>> THEN Unauthorized
    ELSE IF ~StartsWith(authorization.value, Bearer) THEN Unauthorized
    ELSE IF Strip(AfterFirstSpace(authorization.value)) # token_required THEN Forbidden
    ELSE Returns

Request(authorization, token_required, status, run) ==
    [authorization |-> authorization, token_required |-> token_required,
     status |-> status, run |-> run]

InitApi == http = Request(NoHeader, <<>>, Returns, 0)

\* trigger_train: cfg = load_config(config_path); token_required = ...strip();
\* authorize(authorization, token_required); summary = run_pipeline(cfg, "api").
\* The request is served by the next run of the model; a rejected request
\* leaves the run unused.
TriggerTrain(r) ==
    /\ pc[r] = "idle"
    /\ r > 1 => pc[r - 1] # "idle"
    /\ \E configured \in ConfiguredTokens, authorization \in Authorizations :
           LET token_required == Strip(configured)
               status == authorize(authorization, token_required)
           IN  IF status = Returns
               THEN /\ StartRun(r)
                    /\ http' = Request(authorization, token_required, status, r)
               ELSE /\ http' = Request(authorization, token_required, status, 0)
                    /\ UNCHANGED pipelineVars
    /\ UNCHANGED <<watchVars, mergeVars, trainVars, configVars>>

\* -------------------------------------------------------------- deep_merge
\* A configuration value is a scalar or a mapping from keys to values; the
\* mappings are nested two levels deep, as the sections and options of
\* DEFAULT_CONFIG are.
Keys == {"api", "hpo"}
Scalars == {1, 2}

NoItems == [key \in {} |-> 0]
Scalar(value) == [kind |-> "scalar", value |-> value, items |-> NoItems]
Dict(items) == [kind |-> "dict", value |-> 0, items |-> items]

\* isinstance(value, dict)
IsDict(value) == value.kind = "dict"

MappingsTo(values) == UNION {[keys -> values] : keys \in SUBSET Keys}
Options == MappingsTo({Scalar(value) : value \in Scalars})
Mappings ==
    MappingsTo({Scalar(value) : value \in Scalars} \cup {Dict(items) : items \in Options})

RECURSIVE deep_merge(_, _)
RECURSIVE Assign(_, _, _)
RECURSIVE MergeItems(_, _, _)

AssignAccumulating(acc, key, value) ==
    IF key \in DOMAIN acc /\ IsDict(acc[key]) /\ IsDict(value)
    THEN Dict(deep_merge(acc[key].items, value.items))
    ELSE IF key \in DOMAIN acc /\ ~IsDict(acc[key]) /\ ~IsDict(value)
         THEN Scalar(acc[key].value + value.value)
         ELSE value

AssignShallow(acc, key, value) == value

\* The value the body of the loop gives out[key]:
\*   if key in out and isinstance(out[key], dict) and isinstance(value, dict):
\*       out[key] = deep_merge(out[key], value)
\*   else:
\*       out[key] = value
Assign(acc, key, value) ==
    IF key \in DOMAIN acc /\ IsDict(acc[key]) /\ IsDict(value)
    THEN Dict(deep_merge(acc[key].items, value.items))
    ELSE value

\* for key, value in override.items(): ...  over the keys still to visit
MergeItems(acc, items, keys) ==
    IF keys = {}
    THEN acc
    ELSE LET key == CHOOSE k \in keys : TRUE
         IN  MergeItems([k \in DOMAIN acc \cup {key} |->
                            IF k = key THEN Assign(acc, key, items[key]) ELSE acc[k]],
                        items, keys \ {key})

\* out = dict(base); the loop; return out
deep_merge(b, o) == MergeItems(b, o, DOMAIN o)

InitConfig ==
    /\ base = NoItems
    /\ override = NoItems
    /\ out = <<>>
    /\ again = <<>>

\* out = deep_merge(base, override)
Merge ==
    /\ out = <<>>
    /\ out' = <<deep_merge(base, override)>>
    /\ UNCHANGED <<base, override, again>>
    /\ UNCHANGED <<pipelineVars, watchVars, apiVars, trainVars, configVars>>

\* again = deep_merge(out, override)
MergeAgain ==
    /\ out # <<>>
    /\ again = <<>>
    /\ again' = <<deep_merge(out[1], override)>>
    /\ UNCHANGED <<base, override, out>>
    /\ UNCHANGED <<pipelineVars, watchVars, apiVars, trainVars, configVars>>

\* ------------------------------------------------------ run_calendar_watch
\* calendar.event_keyword ("Re") and calendar.lookahead_minutes
EventKeyword == <<82, 101>>
LookaheadMinutes == 30

\* timedelta(minutes=m), in the seconds of the clock
Minutes(m) == m * 60

\* str.lower, for the letters A-Z
Lower(s) == [i \in 1..Len(s) |-> IF s[i] \in 65..90 THEN s[i] + 32 ELSE s[i]]

\* sub in s
Contains(sub, s) ==
    \E i \in 0..(Len(s) - Len(sub)) : SubSeq(s, i + 1, i + Len(sub)) = sub

\* keyword = str(cal_cfg.get("event_keyword", ...)).strip().lower()
keyword == Lower(Strip(EventKeyword))

\* What parse_calendar_events returns for the calendar of the model:
\*   "RE w" starts one second after the start of the clock;
\*   "rx"   does not hold the keyword;
\*   "re"   has started already;
\*   "xRe " starts one second after the end of the first lookahead window.
Event(uid, name, start_dt) == [uid |-> uid, name |-> name, start_dt |-> start_dt]
NoUid == ""

CalendarEvents ==
    <<Event("weekly", <<82, 69, Space, 119>>, StartClock + 1),
      Event("other", <<114, 120>>, StartClock + 1),
      Event("past", <<114, 101>>, StartClock - 1),
      Event("late", <<120, 82, 101, Space>>, StartClock + 1 + Minutes(LookaheadMinutes))>>

\* name = str(event["name"]).strip(); keyword and keyword not in name.lower()
TitleMatches(event) ==
    keyword = <<>> \/ Contains(keyword, Lower(Strip(event.name)))

\* now <= start_dt <= cutoff, with cutoff = now + timedelta(minutes=lookahead_minutes)
InWindow(event, t) ==
    t <= event.start_dt /\ event.start_dt <= t + Minutes(LookaheadMinutes)

\* .calendar_state.json: absent, opened for writing and still empty, or the
\* JSON object written last (its seen_event_ids).
StateFile(state, seen_event_ids) == [state |-> state, seen_event_ids |-> seen_event_ids]

InitWatcher ==
    /\ wpc = "stopped"
    /\ seen_ids = {}
    /\ calendarState = StateFile("absent", {})
    /\ pollNow = 0
    /\ idx = 0
    /\ triggeredBy = [r \in Runs |-> NoUid]

\* The run the watcher has called last.
LastStarted == CHOOSE r \in Runs : pc[r] # "idle" /\ (r = NumRuns \/ pc[r + 1] = "idle")

\* The process starts: state = read_json(state_path) (which raises on a file
\* that is not JSON); seen_ids = set(state.get("seen_event_ids", []))
WatchStart ==
    /\ wpc = "stopped"
    /\ calendarState.state # "truncated"
    /\ seen_ids' = calendarState.seen_event_ids
    /\ wpc' = "poll"
    /\ UNCHANGED <<calendarState, pollNow, idx, triggeredBy>>
    /\ UNCHANGED <<pipelineVars, apiVars, mergeVars, trainVars, configVars>>

\* cfg = load_config(...); calendar_text = load_ics_source(cfg);
\* events = parse_calendar_events(calendar_text); now = datetime.now(...)
Poll ==
    /\ wpc = "poll"
    /\ pollNow' = now
    /\ idx' = 1
    /\ wpc' = "for_event"
    /\ UNCHANGED <<seen_ids, calendarState, triggeredBy>>
    /\ UNCHANGED <<pipelineVars, apiVars, mergeVars, trainVars, configVars>>

\* load_config, load_ics_source or parse_calendar_events raises
PollFails ==
    /\ wpc = "poll"
    /\ idx' = 0
    /\ wpc' = "except"
    /\ UNCHANGED <<seen_ids, calendarState, pollNow, triggeredBy>>
    /\ UNCHANGED <<pipelineVars, apiVars, mergeVars, trainVars, configVars>>

\* The three "continue" tests of the loop body.
Eligible(event) ==
    /\ TitleMatches(event)
    /\ InWindow(event, pollNow)
    /\ event.uid \notin seen_ids

\* for event in events: the loop is exhausted
EndOfEvents ==
    /\ wpc = "for_event"
    /\ idx > Len(CalendarEvents)
    /\ idx' = 0
    /\ wpc' = "sleep"
    /\ UNCHANGED <<seen_ids, calendarState, pollNow, triggeredBy>>
    /\ UNCHANGED <<pipelineVars, apiVars, mergeVars, trainVars, configVars>>

\* for event in events: one of the tests says continue
SkipEvent ==
    /\ wpc = "for_event"
    /\ idx <= Len(CalendarEvents)
    /\ ~Eligible(CalendarEvents[idx])
    /\ idx' = idx + 1
    /\ UNCHANGED <<wpc, seen_ids, calendarState, pollNow, triggeredBy>>
    /\ UNCHANGED <<pipelineVars, apiVars, mergeVars, trainVars, configVars>>

TriggerEventAnyTime(r) ==
    /\ wpc = "for_event"
    /\ idx <= Len(CalendarEvents)
    /\ TitleMatches(CalendarEvents[idx])
    /\ CalendarEvents[idx].uid \notin seen_ids
    /\ StartRun(r)
    /\ triggeredBy' = [triggeredBy EXCEPT ![r] = CalendarEvents[idx].uid]
    /\ wpc' = "run_pipeline"
    /\ UNCHANGED <<seen_ids, calendarState, pollNow, idx>>
    /\ UNCHANGED <<apiVars, mergeVars, trainVars, configVars>>

\* summary = run_pipeline(cfg, reason=f"calendar:{name}"): the call
TriggerEvent(r) ==
    /\ wpc = "for_event"
    /\ idx <= Len(CalendarEvents)
    /\ Eligible(CalendarEvents[idx])
    /\ StartRun(r)
    /\ triggeredBy' = [triggeredBy EXCEPT ![r] = CalendarEvents[idx].uid]
    /\ wpc' = "run_pipeline"
    /\ UNCHANGED <<seen_ids, calendarState, pollNow, idx>>
    /\ UNCHANGED <<apiVars, mergeVars, trainVars, configVars>>

\* run_pipeline returns; seen_ids.add(uid)
RunReturns ==
    /\ wpc = "run_pipeline"
    /\ pc[LastStarted] = "done"
    /\ seen_ids' = seen_ids \cup {CalendarEvents[idx].uid}
    /\ wpc' = "open_state"
    /\ UNCHANGED <<calendarState, pollNow, idx, triggeredBy>>
    /\ UNCHANGED <<pipelineVars, apiVars, mergeVars, trainVars, configVars>>

\* run_pipeline raises: the exception leaves the for loop
RunRaises ==
    /\ wpc = "run_pipeline"
    /\ pc[LastStarted] = "failed"
    /\ wpc' = "except"
    /\ UNCHANGED <<seen_ids, calendarState, pollNow, idx, triggeredBy>>
    /\ UNCHANGED <<pipelineVars, apiVars, mergeVars, trainVars, configVars>>

\* write_json(state_path, {...}): path.open("w") truncates
OpenState ==
    /\ wpc = "open_state"
    /\ calendarState' = StateFile("truncated", {})
    /\ wpc' = "dump_state"
    /\ UNCHANGED <<seen_ids, pollNow, idx, triggeredBy>>
    /\ UNCHANGED <<pipelineVars, apiVars, mergeVars, trainVars, configVars>>

\* json.dump(payload, f) and the close of the file; print(...); next event
DumpState ==
    /\ wpc = "dump_state"
    /\ calendarState' = StateFile("json", seen_ids)
    /\ idx' = idx + 1
    /\ wpc' = "for_event"
    /\ UNCHANGED <<seen_ids, pollNow, triggeredBy>>
    /\ UNCHANGED <<pipelineVars, apiVars, mergeVars, trainVars, configVars>>

\* write_json raises, before or after it has truncated the file
StateWriteFails ==
    /\ wpc \in {"open_state", "dump_state"}
    /\ wpc' = "except"
    /\ UNCHANGED <<seen_ids, calendarState, pollNow, idx, triggeredBy>>
    /\ UNCHANGED <<pipelineVars, apiVars, mergeVars, trainVars, configVars>>

ExceptReraises ==
    /\ wpc = "except"
    /\ wpc' = "stopped"
    /\ UNCHANGED <<seen_ids, calendarState, pollNow, idx, triggeredBy>>
    /\ UNCHANGED <<pipelineVars, apiVars, mergeVars, trainVars, configVars>>

\* except Exception as exc: print(json.dumps({"event": "calendar_watch_error", ...}))
Except ==
    /\ wpc = "except"
    /\ wpc' = "sleep"
    /\ UNCHANGED <<seen_ids, calendarState, pollNow, idx, triggeredBy>>
    /\ UNCHANGED <<pipelineVars, apiVars, mergeVars, trainVars, configVars>>

\* time.sleep(poll_seconds), and the next turn of while True
Sleep ==
    /\ wpc = "sleep"
    /\ wpc' = "poll"
    /\ UNCHANGED <<seen_ids, calendarState, pollNow, idx, triggeredBy>>
    /\ UNCHANGED <<pipelineVars, apiVars, mergeVars, trainVars, configVars>>

\* The process stops (it is killed, or the machine goes down): its locals
\* are gone, the run it is inside is cut short, the files stay as they are.
Crash ==
    /\ wpc # "stopped"
    /\ wpc' = "stopped"
    /\ seen_ids' = {}
    /\ pollNow' = 0
    /\ idx' = 0
    /\ IF wpc = "run_pipeline" /\ Running(LastStarted)
       THEN Abort(LastStarted)
       ELSE UNCHANGED pipelineVars
    /\ UNCHANGED <<calendarState, triggeredBy>>
    /\ UNCHANGED <<apiVars, mergeVars, trainVars, configVars>>

\* The call of run_pipeline, with the identifier of the run renamed as in
\* StartRunRenamed: the watcher never looks inside it either.
TriggerEventRenamed(r) ==
    /\ TriggerEvent(r)
    /\ runId'[r] \in {runId[q] : q \in {q \in Runs : pc[q] # "idle"}}
                        \cup {make_run_id(now, Cardinality({q \in Runs : pc[q] # "idle"}))}

\* The steps of the watcher process.
WatcherStep ==
    \/ Poll
    \/ PollFails
    \/ EndOfEvents
    \/ SkipEvent
    \/ \E r \in Runs : TriggerEventRenamed(r)
    \/ RunReturns
    \/ RunRaises
    \/ OpenState
    \/ DumpState
    \/ StateWriteFails
    \/ Except
    \/ Sleep

\* ------------------------------------------------------------- train_model
\* Strings are sequences of character codes, as above.
RandomForest == <<114, 97, 110, 100, 111, 109, 95, 102, 111, 114, 101, 115, 116>>
LogisticRegression == <<108, 111, 103, 105, 115, 116, 105, 99, 95, 114, 101, 103, 114, 101, 115, 115, 105, 111, 110>>
Svm == <<115, 118, 109>>
Dunder == <<95, 95>>
ModelPrefix == <<109, 111, 100, 101, 108, 95, 95>>

\* An option of a section: present with a value, or absent from the section.
Option(present, value) == [present |-> present, value |-> value]

\* dict.get(key, default)
Get(option, default) == IF option.present THEN option.value ELSE default

\* model.type as configured: the two supported tags, one of them in another
\* spelling, a tag that is not supported, and no tag at all.
ModelTypes ==
    {Option(TRUE, RandomForest),
     Option(TRUE, <<32, 82, 97, 110, 100, 111, 109, 95, 70, 111, 114, 101, 115, 116>>),
     Option(TRUE, LogisticRegression),
     Option(TRUE, Svm),
     Option(FALSE, <<>>)}

\* hpo.enabled after bool(): true, false, or absent from the section.
EnabledOptions == {Option(TRUE, TRUE), Option(TRUE, FALSE), Option(FALSE, FALSE)}

\* A parameter grid maps parameter names to lists of candidate values.  A
\* list is modelled by its length and a candidate by its position in it.
NoGrid == [name \in {} |-> 0]

\* One item of a configured grid, in the order of the mapping.
Item(name, candidates) == [name |-> name, candidates |-> candidates]

\* hpo.param_grid as configured: absent, null, empty, a bare parameter name,
\* a namespaced one, and both for the same parameter.
ParamGrids ==
    {[present |-> FALSE, null |-> FALSE, items |-> <<>>],
     [present |-> TRUE, null |-> TRUE, items |-> <<>>],
     [present |-> TRUE, null |-> FALSE, items |-> <<>>],
     [present |-> TRUE, null |-> FALSE, items |-> <<Item(<<67>>, 2)>>],
     [present |-> TRUE, null |-> FALSE, items |-> <<Item(<<109, 111, 100, 101, 108, 95, 95, 67>>, 3)>>],
     [present |-> TRUE, null |-> FALSE,
      items |-> <<Item(<<67>>, 2), Item(<<109, 111, 100, 101, 108, 95, 95, 67>>, 1)>>]}

DefaultFolds == 3
FoldCounts == {Option(FALSE, 0), Option(TRUE, 2)}

\* The cross-validated scores a search can report, in percent.
Scores == {80, 90}

build_modelAnyType(model_type) == TRUE

\* build_model(config): TRUE when it returns an estimator, FALSE when it
\* raises ValueError("Unsupported model type").
build_model(model_type) == model_type \in {RandomForest, LogisticRegression}

\* default_param_grid(model_type)
default_param_grid(model_type) ==
    IF model_type = RandomForest
    THEN [name \in {<<109, 111, 100, 101, 108, 95, 95, 110, 95, 101, 115, 116, 105, 109, 97, 116, 111, 114, 115>>,
                    <<109, 111, 100, 101, 108, 95, 95, 109, 97, 120, 95, 100, 101, 112, 116, 104>>,
                    <<109, 111, 100, 101, 108, 95, 95, 109, 105, 110, 95, 115, 97, 109, 112, 108, 101, 115, 95, 115, 112, 108, 105, 116>>} |->
             IF name = <<109, 111, 100, 101, 108, 95, 95, 109, 105, 110, 95, 115, 97, 109, 112, 108, 101, 115, 95, 115, 112, 108, 105, 116>> THEN 2 ELSE 3]
    ELSE IF model_type = LogisticRegression
         THEN [name \in {<<109, 111, 100, 101, 108, 95, 95, 67>>,
                         <<109, 111, 100, 101, 108, 95, 95, 115, 111, 108, 118, 101, 114>>} |->
                  IF name = <<109, 111, 100, 101, 108, 95, 95, 67>> THEN 3 ELSE 2]
         ELSE NoGrid

\* The name normalize_param_grid gives a key of the configured grid.
Normalized(key) == IF Contains(Dunder, key) THEN key ELSE ModelPrefix \o key

\* normalize_param_grid(raw_grid): the items are assigned in order, a later
\* item replaces an earlier one of the same normalized name.
RECURSIVE normalize_param_grid(_)
normalize_param_grid(raw_grid) ==
    IF raw_grid = <<>>
    THEN NoGrid
    ELSE LET n == Len(raw_grid)
             normalized == normalize_param_grid(SubSeq(raw_grid, 1, n - 1))
             name == Normalized(raw_grid[n].name)
         IN  [k \in DOMAIN normalized \cup {name} |->
                 IF k = name THEN raw_grid[n].candidates ELSE normalized[k]]

\* The report train_model returns: the keys it has and their values.
Report(fields, enabled, used_default_grid, cv_folds, best_score, best_params) ==
    [fields |-> fields, enabled |-> enabled, used_default_grid |-> used_default_grid,
     cv_folds |-> cv_folds, best_score |-> best_score, best_params |-> best_params]

NoReport == Report({}, FALSE, FALSE, 0, 0, NoGrid)

\* How a call of train_model ended, the grid it resolved and its report.
Outcome(status, grid, report) == [status |-> status, grid |-> grid, report |-> report]

\* hpo_cfg.get("param_grid") or {}
ConfiguredGrid(param_grid) ==
    IF param_grid.present /\ ~param_grid.null THEN param_grid.items ELSE <<>>

\* train_model(X_train, y_train, config).  fits says whether the fit of the
\* estimator or of the search returns; best_score and best_params are what a
\* search that returns has found.
train_model(cfg, fits, best_score, best_params) ==
    LET model_type == Lower(Strip(Get(cfg.model_type, RandomForest)))
        configured_grid == ConfiguredGrid(cfg.param_grid)
        grid == IF configured_grid # <<>>
                THEN normalize_param_grid(configured_grid)
                ELSE default_param_grid(model_type)
        cv_folds == Get(cfg.cv_folds, DefaultFolds)
    IN  IF ~build_model(model_type)
        THEN Outcome("ValueError", NoGrid, NoReport)
        ELSE IF ~Get(cfg.enabled, TRUE)
             THEN IF fits
                  THEN Outcome("returned", NoGrid,
                               Report({"enabled"}, FALSE, FALSE, 0, 0, NoGrid))
                  ELSE Outcome("raised", NoGrid, NoReport)
             ELSE IF grid = NoGrid
                  THEN IF fits
                       THEN Outcome("returned", grid,
                                    Report({"enabled", "used_default_grid", "best_params"},
                                           TRUE, FALSE, 0, 0, NoGrid))
                       ELSE Outcome("raised", grid, NoReport)
                  ELSE IF fits
                       THEN Outcome("returned", grid,
                                    Report({"enabled", "used_default_grid", "cv_folds",
                                            "scoring", "best_score", "best_params"},
                                           TRUE, configured_grid = <<>>, cv_folds,
                                           best_score,
                                           [name \in DOMAIN grid |-> best_params[name]]))
                       ELSE Outcome("raised", grid, NoReport)

\* The grid train_model resolves for cfg.
ResolvedGrid(cfg) == train_model(cfg, FALSE, 0, NoGrid).grid

TrainConfig(model_type, enabled, param_grid, cv_folds) ==
    [model_type |-> model_type, enabled |-> enabled, param_grid |-> param_grid,
     cv_folds |-> cv_folds]

\* DEFAULT_CONFIG: random_forest, search enabled, an empty param_grid, 3 folds
InitTrain ==
    /\ config = TrainConfig(Option(TRUE, RandomForest), Option(TRUE, TRUE),
                            [present |-> TRUE, null |-> FALSE, items |-> <<>>],
                            Option(TRUE, DefaultFolds))
    /\ trained = Outcome("none", NoGrid, NoReport)

\* train_model returns the estimator and the report
TrainReturns ==
    /\ trained.status = "none"
    /\ \E best_score \in Scores :
       \E best_params \in [DOMAIN ResolvedGrid(config) -> 1..3] :
          /\ \A name \in DOMAIN best_params :
                best_params[name] <= ResolvedGrid(config)[name]
          /\ trained' = train_model(config, TRUE, best_score, best_params)
    /\ trained'.status = "returned"
    /\ UNCHANGED config
    /\ UNCHANGED <<pipelineVars, watchVars, apiVars, mergeVars, configVars>>

\* train_model raises: build_model does, or a fit does
TrainRaises ==
    /\ trained.status = "none"
    /\ trained' = train_model(config, FALSE, 0, NoGrid)
    /\ UNCHANGED config
    /\ UNCHANGED <<pipelineVars, watchVars, apiVars, mergeVars, configVars>>

\* -------------------------------------------------------------- load_config
\* The mappings as objects in memory.  An object maps keys to cells; a cell
\* holds a scalar, or the address of another object (a nested mapping).
Cell(ref, value) == [ref |-> ref, value |-> value]
NoObject == [key \in {} |-> Cell(FALSE, 0)]

\* The order in which the keys of a mapping are visited.
KeyOrder == <<"api", "hpo">>

\* DEFAULT_CONFIG, built when the module is imported: two sections, the
\* second of which holds a nested mapping, as hpo holds param_grid.
DefaultHeap ==
    <<NoObject,
      [key \in {"api"} |-> Cell(FALSE, 1)],
      [key \in {"api", "hpo"} |-> IF key = "api" THEN Cell(FALSE, 1) ELSE Cell(TRUE, 1)],
      [key \in {"api", "hpo"} |-> IF key = "api" THEN Cell(TRUE, 2) ELSE Cell(TRUE, 3)]>>

DEFAULT_CONFIG == Len(DefaultHeap)

\* What a function that builds an object returns: the memory and the address.
At(h, address) == [heap |-> h, address |-> address]

\* obj[key] = cell
Put(obj, key, cell) ==
    [k \in DOMAIN obj \cup {key} |-> IF k = key THEN cell ELSE obj[k]]

\* h[address][key] = cell
PutAt(h, address, key, cell) ==
    [h EXCEPT ![address] = Put(h[address], key, cell)]

RECURSIVE safe_load(_, _)
RECURSIVE StoreItems(_, _, _, _)

\* The objects of a parsed document, from the key at position i on.
StoreItems(h, items, i, obj) ==
    IF i > Len(KeyOrder)
    THEN At(Append(h, obj), Len(h) + 1)
    ELSE LET key == KeyOrder[i]
         IN  IF key \notin DOMAIN items
             THEN StoreItems(h, items, i + 1, obj)
             ELSE IF IsDict(items[key])
                  THEN LET nested == safe_load(h, items[key].items)
                       IN  StoreItems(nested.heap, items, i + 1,
                                      Put(obj, key, Cell(TRUE, nested.address)))
                  ELSE StoreItems(h, items, i + 1,
                                  Put(obj, key, Cell(FALSE, items[key].value)))

\* yaml.safe_load(f) or {}: new objects that hold the document
safe_load(h, items) == StoreItems(h, items, 1, NoObject)

RECURSIVE deep_merge_heap(_, _, _)
RECURSIVE MergeKeys(_, _, _, _)

\* for key, value in override.items(): ...  from the key at position i on
MergeKeys(h, out_, o, i) ==
    IF i > Len(KeyOrder)
    THEN At(h, out_)
    ELSE LET key == KeyOrder[i]
         IN  IF key \notin DOMAIN h[o]
             THEN MergeKeys(h, out_, o, i + 1)
             ELSE IF key \in DOMAIN h[out_] /\ h[out_][key].ref /\ h[o][key].ref
                  THEN LET merged == deep_merge_heap(h, h[out_][key].value, h[o][key].value)
                       IN  MergeKeys(PutAt(merged.heap, out_, key,
                                           Cell(TRUE, merged.address)),
                                     out_, o, i + 1)
                  ELSE MergeKeys(PutAt(h, out_, key, h[o][key]), out_, o, i + 1)

\* deep_merge(base, override) on objects: out = dict(base) is a new object
\* with the cells of base; the loop; return out.
deep_merge_heap(h, b, o) == MergeKeys(Append(h, h[b]), Len(h) + 1, o, 1)

\* What load_config has returned for a run, the object it parsed from the
\* file and the document that was in the file; address 0 before the call.
Resolved(config_, loaded, document) ==
    [config |-> config_, loaded |-> loaded, document |-> document]

InitHeap ==
    /\ heap = DefaultHeap
    /\ resolved = [r \in Runs |-> Resolved(0, 0, NoItems)]

\* config = load_config(config_path) for run r, the file holding document
LoadConfig(r, document) ==
    /\ resolved[r].config = 0
    /\ LET loaded == safe_load(heap, document)
           merged == deep_merge_heap(loaded.heap, DEFAULT_CONFIG, loaded.address)
       IN  /\ heap' = merged.heap
           /\ resolved' = [resolved EXCEPT
                              ![r] = Resolved(merged.address, loaded.address, document)]
    /\ UNCHANGED <<pipelineVars, watchVars, apiVars, mergeVars, trainVars>>

\* --------------------------------------------------------------- the whole
Init ==
    /\ InitPipeline
    /\ InitWatcher
    /\ InitApi
    /\ InitConfig
    /\ InitTrain
    /\ InitHeap

\* ----------------------------------------------------------- specification
\* The statements of run_pipeline after the first, outside maybe_promote.
PipelineStep(r) ==
    \/ EnsureRunDir(r)
    \/ LoadDataset(r)
    \/ SavePreprocessSnapshot(r)
    \/ TrainModel(r)
    \/ EvaluateModel(r)
    \/ PersistRun(r)
    \/ WriteSummary(r)
    \/ WriteLatestRun(r)
    \/ Fail(r)

\* The statements of maybe_promote.
PromotionStep(r) ==
    \/ EnsureProductionDir(r)
    \/ ReadAndDecide(r)
    \/ CopyModel(r)
    \/ OpenProdMetrics(r)
    \/ DumpProdMetrics(r)

\* Runs interleave freely: nothing in the code serializes them.
Next ==
    \/ Tick
    \/ \E r \in Runs : InvokeRun(r)
    \/ \E r \in Runs : PipelineStep(r)
    \/ \E r \in Runs : PromotionStep(r)

Spec == Init /\ [][Next]_vars

\* The identity of the runs alone: the clock, the identifiers the runs
\* draw and the run directories they create.
NextIds ==
    \/ Tick
    \/ \E r \in Runs : InvokeRun(r)
    \/ \E r \in Runs : EnsureRunDir(r)

SpecIds == Init /\ [][NextIds]_vars

\* run_pipeline and maybe_promote use a run identifier only to build paths
\* and to copy it into records: they never look inside it.  Up to a renaming
\* of the identifiers, every behaviour of Spec is therefore one in which
\* all runs start within one second and each run draws either a suffix
\* drawn before or the first one not drawn yet.
DrawnIds == {runId[q] : q \in {q \in Runs : pc[q] # "idle"}}

StartRunRenamed(r) ==
    /\ StartRun(r)
    /\ runId'[r] \in DrawnIds \cup {make_run_id(now, Cardinality(DrawnIds))}
    /\ UNCHANGED envVars

NextRuns ==
    \/ \E r \in Runs : StartRunRenamed(r)
    \/ \E r \in Runs : PipelineStep(r)
    \/ \E r \in Runs : PromotionStep(r)

SpecRuns == Init /\ [][NextRuns]_vars

\* The runs whose promotion decisions are taken one after another: a run
\* enters maybe_promote only while no other run is inside it.
InMaybePromote(r) ==
    pc[r] \in {"read_previous", "copy_model", "open_prod_metrics", "dump_prod_metrics"}

NextSeq ==
    \/ \E r \in Runs : StartRunRenamed(r)
    \/ \E r \in Runs : PipelineStep(r)
    \/ \E r \in Runs :
           /\ \A q \in Runs \ {r} : ~InMaybePromote(q)
           /\ PromotionStep(r)

SpecSeq == Init /\ [][NextSeq]_vars

\* The requests of POST /train and the first statement of the runs they
\* start.
NextApi ==
    \/ \E r \in Runs : TriggerTrain(r)
    \/ \E r \in Runs : EnsureRunDir(r)

SpecApi == Init /\ [][NextApi]_vars

\* The calendar watcher, the runs it calls and the stops and restarts of
\* its process.
NextWatch ==
    \/ Tick
    \/ WatchStart
    \/ WatcherStep
    \/ Crash
    \/ \E r \in Runs : PipelineStep(r)
    \/ \E r \in Runs : PromotionStep(r)

SpecWatch == Init /\ [][NextWatch]_vars

\* The watcher while its process stays up.  The process is sequential and
\* nothing can hold it at the except clause or keep it asleep.
NextPoll ==
    \/ Tick
    \/ WatchStart
    \/ WatcherStep
    \/ \E r \in Runs : PipelineStep(r)
    \/ \E r \in Runs : PromotionStep(r)

SpecPoll == Init /\ [][NextPoll]_vars /\ WF_vars(Except) /\ WF_vars(Sleep)

\* deep_merge on every pair of mappings, applied once and once more.
InitMerge ==
    /\ InitPipeline
    /\ InitWatcher
    /\ InitApi
    /\ base \in Mappings
    /\ override \in Mappings
    /\ out = <<>>
    /\ again = <<>>
    /\ InitTrain
    /\ InitHeap

NextMerge ==
    \/ Merge
    \/ MergeAgain

SpecMerge == InitMerge /\ [][NextMerge]_vars

\* train_model on every configuration of model.type and the hpo section.
InitTraining ==
    /\ InitPipeline
    /\ InitWatcher
    /\ InitApi
    /\ InitConfig
    /\ config \in {TrainConfig(model_type, enabled, param_grid, cv_folds) :
                       model_type \in ModelTypes, enabled \in EnabledOptions,
                       param_grid \in ParamGrids, cv_folds \in FoldCounts}
    /\ trained = Outcome("none", NoGrid, NoReport)
    /\ InitHeap

NextTrain ==
    \/ TrainReturns
    \/ TrainRaises

SpecTrain == InitTraining /\ [][NextTrain]_vars

\* The configurations the runs resolve, each from the document in its file.
NextConfig == \E r \in Runs : \E document \in Mappings : LoadConfig(r, document)

SpecConfig == Init /\ [][NextConfig]_vars

\* ------------------------------------------------------------------ properties
Started(r) == pc[r] # "idle"

\* maybe_promote has returned its record to run_pipeline.
Decided(r) ==
    pc[r] \in {"write_summary", "write_latest", "done"}

\* Run r returns from maybe_promote in this step.
DecisionReturns(r) ==
    /\ pc[r] \in {"read_previous", "dump_prod_metrics"}
    /\ pc'[r] = "write_summary"

\* C1: when the promotion decisions are taken one after another, the
\* accuracy stored in production/metrics.json never decreases from one
\* decision to the next, and right after a decision that promoted it is at
\* least the threshold the promoting run used.
C1_PromotionMonotone ==
    [][/\ lastDecisionAcc' >= lastDecisionAcc
       /\ \A r \in Runs :
              (DecisionReturns(r) /\ promotion'[r].promoted) =>
                  /\ prodMetrics'.state = "json"
                  /\ prodMetrics'.accuracy >= promotion'[r].threshold]_vars

\* Two decisions in a row promoted, the second over the first.
C1_Witness ==
    \E r1, r2 \in Runs :
        /\ r1 # r2
        /\ Decided(r1) /\ Decided(r2)
        /\ promotion[r1].promoted /\ promotion[r2].promoted
        /\ promotion[r2].previous_accuracy = promotion[r1].current_accuracy
        /\ promotion[r2].current_accuracy > promotion[r1].current_accuracy
        /\ lastDecisionAcc = promotion[r2].current_accuracy

\* C2: with runs executing concurrently, no run writes the production slot
\* after deciding against a previous accuracy that has gone stale, so the
\* production accuracy never falls below the accuracy of a run that promoted
\* (no decrease, no lost promotion).
C2_SerializedPromotion ==
    /\ \A r \in Runs :
           pc[r] \in {"copy_model", "open_prod_metrics"} =>
               /\ prodMetrics.state # "truncated"
               /\ PreviousAccuracy(prodMetrics) = promotion[r].previous_accuracy
    /\ \A r \in Runs :
           (Decided(r) /\ promotion[r].promoted /\ prodMetrics.state = "json") =>
               prodMetrics.accuracy >= promotion[r].current_accuracy

\* C3: maybe_promote promotes exactly when the candidate accuracy is at
\* least the threshold and at least the previous production accuracy, which
\* is -1 when production/metrics.json is absent; so without a production
\* model a run is promoted iff it meets the threshold, and a tie with the
\* production accuracy is promoted.
C3_PromotesExactlyWhen ==
    [][\A r \in Runs :
           (pc[r] = "read_previous" /\ pc'[r] \in {"copy_model", "write_summary"}) =>
               LET cur == metrics[r]
                   thr == promotion'[r].threshold
                   promoted == promotion'[r].promoted
               IN  /\ promoted <=> (pc'[r] = "copy_model")
                   /\ promotion'[r].current_accuracy = cur
                   /\ prodMetrics.state = "absent" =>
                          /\ promotion'[r].previous_accuracy = -1
                          /\ promoted <=> (cur >= thr)
                   /\ prodMetrics.state = "json" =>
                          /\ promotion'[r].previous_accuracy = prodMetrics.accuracy
                          /\ promoted <=> (cur >= thr /\ cur >= prodMetrics.accuracy)]_vars

\* A candidate that ties with the production accuracy has been promoted,
\* and one run was promoted without a previous production model.
C3_Witness ==
    \E r1, r2 \in Runs :
        /\ Decided(r1) /\ Decided(r2)
        /\ promotion[r1].previous_accuracy = -1 /\ promotion[r1].promoted
        /\ promotion[r2].previous_accuracy = promotion[r2].current_accuracy
        /\ promotion[r2].promoted

\* C4: the statements maybe_promote executes on the way to a decision not
\* to promote leave production/model.joblib and production/metrics.json as
\* they were, and a run that decided not to promote has written neither.
C4_NoPromoteLeavesProduction ==
    [][\A r \in Runs :
           /\ (pc[r] \in {"maybe_promote", "read_previous"}
                 /\ pc'[r] # pc[r]
                 /\ pc'[r] \in {"read_previous", "write_summary"}) =>
                  (prodModel' = prodModel /\ prodMetrics' = prodMetrics)
           /\ (Decided(r)' /\ ~promotion'[r].promoted) =>
                  Written(r)' \cap {ProductionModel, ProductionMetrics} = {}]_vars

\* A run decided not to promote although its accuracy met the threshold,
\* against a production model that stayed.
C4_Witness ==
    \E r \in Runs :
        /\ Decided(r)
        /\ ~promotion[r].promoted
        /\ promotion[r].current_accuracy >= promotion[r].threshold
        /\ prodMetrics.state = "json"
        /\ prodMetrics.accuracy = promotion[r].previous_accuracy
        /\ prodModel = prodMetrics.run_id

\* C5: in every reachable state production/model.joblib and
\* production/metrics.json come from the same run, or are both absent.
C5_ProductionNeverPartial ==
    \/ prodModel = NoFile /\ prodMetrics.state = "absent"
    \/ prodMetrics.state = "json" /\ prodMetrics.run_id = prodModel

\* The files of runs/<id>/ a complete run has written about itself.
RunArtifacts(id) ==
    {RunFile(id, "preprocessed/train.csv"), RunFile(id, "preprocessed/test.csv"),
     RunFile(id, "model.joblib"), RunFile(id, "metrics.json"), RunFile(id, "hpo.json"),
     RunFile(id, "summary.json"), RunFile(id, "summary.md")}

ProductionFiles == {ProductionModel, ProductionMetrics}

\* C6 as stated: the production slot is the only location that more than
\* one run writes.
C6_OnlyProductionShared ==
    \A r1, r2 \in Runs :
        r1 # r2 => (Written(r1) \cap Written(r2)) \subseteq ProductionFiles

\* C6 as amended: every file a run writes is a production file,
\* latest_run.json, or a file under runs/<run_id>/ of the writing run; two
\* runs with different identifiers write no other file in common.
C6_SharedOnlyProductionAndLatest ==
    /\ \A r \in Runs : \A p \in Written(r) :
           \/ p \in ProductionFiles \cup {LatestRunFile}
           \/ p.dir = "runs" /\ p.id = runId[r]
    /\ \A r1, r2 \in Runs :
           (r1 # r2 /\ runId[r1] # runId[r2]) =>
               (Written(r1) \cap Written(r2)) \subseteq (ProductionFiles \cup {LatestRunFile})

\* Two complete runs with different identifiers, both promoted.
C6_Witness ==
    \E r1, r2 \in Runs :
        /\ pc[r1] = "done" /\ pc[r2] = "done"
        /\ runId[r1] # runId[r2]
        /\ RunArtifacts(runId[r1]) \subseteq Written(r1)
        /\ RunArtifacts(runId[r2]) \subseteq Written(r2)
        /\ (Written(r1) \cap Written(r2)) = ProductionFiles \cup {LatestRunFile}

\* C7 as stated: the identifiers of any two runs differ, and so do their
\* run directories.
C7_RunIdsUnique ==
    \A r1, r2 \in Runs :
        (r1 # r2 /\ Started(r1) /\ Started(r2)) =>
            /\ runId[r1] # runId[r2]
            /\ RunDir(runId[r1]) # RunDir(runId[r2])

\* C7 as amended: identifiers allocated in different seconds differ, and
\* so do the run directories of their runs.
C7_RunIdsUniqueAcrossSeconds ==
    \A r1, r2 \in Runs :
        (Started(r1) /\ Started(r2) /\ allocatedAt[r1] # allocatedAt[r2]) =>
            /\ runId[r1] # runId[r2]
            /\ RunDir(runId[r1]) # RunDir(runId[r2])

\* Two identifiers allocated in different seconds of one minute with the
\* same random suffix.
C7_Witness ==
    \E r1, r2 \in Runs :
        /\ Started(r1) /\ Started(r2)
        /\ allocatedAt[r1] # allocatedAt[r2]
        /\ allocatedAt[r1] \div 60 = allocatedAt[r2] \div 60
        /\ {RunDir(runId[r1]), RunDir(runId[r2])} \subseteq dirs
        /\ SubSeq(runId[r1], Len(runId[r1]) - SuffixLen + 1, Len(runId[r1]))
             = SubSeq(runId[r2], Len(runId[r2]) - SuffixLen + 1, Len(runId[r2]))

\* C8 as stated: an identifier allocated before another one sorts before it
\* (runs are numbered in the order of allocation).
C8_RunIdsSortByCreation ==
    \A r1, r2 \in Runs :
        (r1 < r2 /\ Started(r1) /\ Started(r2)) => LexLess(runId[r1], runId[r2])

\* C8 as amended: an identifier allocated in an earlier second than another
\* one sorts before it.
C8_RunIdsSortBySecond ==
    \A r1, r2 \in Runs :
        (Started(r1) /\ Started(r2) /\ allocatedAt[r1] < allocatedAt[r2]) =>
            LexLess(runId[r1], runId[r2])

\* The earlier identifier has the larger random suffix and the clock has
\* passed a full hour in between.
C8_Witness ==
    \E r1, r2 \in Runs :
        /\ Started(r1) /\ Started(r2)
        /\ allocatedAt[r1] < allocatedAt[r2]
        /\ allocatedAt[r1] \div 3600 < allocatedAt[r2] \div 3600
        /\ runId[r1][Len(runId[r1])] > runId[r2][Len(runId[r2])]

\* The statements after ensure_dir(run_dir).
AfterRunDir ==
    {"load_dataset", "snapshot", "train", "evaluate", "persist", "maybe_promote",
     "read_previous", "copy_model", "open_prod_metrics", "dump_prod_metrics",
     "write_summary", "write_latest", "done"}

\* C9: the run identifier is assigned once, by the first statement; the run
\* directory exists before any later statement runs and before the run
\* writes anything; every file the run writes under runs/ lies in the
\* directory of that identifier, and a complete run has written all its
\* artifacts there.
C9_OneIdentifierOneDirectory ==
    /\ [](\A r \in Runs :
            /\ pc[r] \in AfterRunDir => (runId[r] # NoId /\ RunDir(runId[r]) \in dirs)
            /\ written[r] # <<>> => RunDir(runId[r]) \in dirs
            /\ \A p \in Written(r) : p.dir = "runs" => p.id = runId[r]
            /\ \A p \in Written(r) :
                   p \in RunArtifacts(runId[r]) \cup ProductionFiles \cup {LatestRunFile}
            /\ pc[r] = "done" => RunArtifacts(runId[r]) \subseteq Written(r))
    /\ [][\A r \in Runs :
            runId'[r] # runId[r] => (pc[r] = "idle" /\ runId[r] = NoId)]_vars

\* A complete run next to a run that failed after writing its snapshot.
C9_Witness ==
    \E r1, r2 \in Runs :
        /\ pc[r1] = "done"
        /\ RunArtifacts(runId[r1]) \subseteq Written(r1)
        /\ pc[r2] = "failed"
        /\ written[r2] # <<>>
        /\ RunDir(runId[r2]) \in dirs

\* The state a run is in before each statement: 1 created, 2 data-loaded,
\* 3 preprocessed-and-snapshotted, 4 trained, 5 evaluated, 6 persisted,
\* 7 promotion-decided, 8 complete (0: the run directory is not there yet).
StateIndex(label) ==
    CASE label \in {"idle", "ensure_dir"} -> 0
      [] label = "load_dataset" -> 1
      [] label = "snapshot" -> 2
      [] label = "train" -> 3
      [] label = "evaluate" -> 4
      [] label = "persist" -> 5
      [] label \in {"maybe_promote", "read_previous", "copy_model",
                    "open_prod_metrics", "dump_prod_metrics"} -> 6
      [] label \in {"write_summary", "write_latest"} -> 7
      [] label = "done" -> 8

\* A run moves to the next state or stays, and a failed run stays failed.
InOrder(r) ==
    /\ pc[r] = "failed" => pc'[r] = "failed"
    /\ (pc[r] # "failed" /\ pc'[r] # "failed") =>
           StateIndex(pc'[r]) \in {StateIndex(pc[r]), StateIndex(pc[r]) + 1}

\* The model, metrics and search report of the run are on disk.
Persisted(r) ==
    {RunFile(runId[r], "model.joblib"), RunFile(runId[r], "metrics.json"),
     RunFile(runId[r], "hpo.json")} \subseteq Written(r)

\* The files run r writes in this step.
NewWrites(r) ==
    {written'[r][i] : i \in (Len(written[r]) + 1)..Len(written'[r])}

\* C10 as stated: the states are passed in order, the record is persisted
\* before the promotion decision, and nothing is written under runs/<run_id>/
\* after the decision.
C10_RecordFrozenAfterDecision ==
    [][\A r \in Runs :
           /\ InOrder(r)
           /\ (pc[r] # "failed" /\ StateIndex(pc[r]) >= 6) => Persisted(r)
           /\ Decided(r) => \A p \in NewWrites(r) : p.dir # "runs"]_vars

\* C10 as amended: the states are passed in order; model, metrics and
\* search report are persisted before the promotion decision and not
\* written again after it; after the decision the run writes summary.json
\* and summary.md under runs/<run_id>/ and latest_run.json, and nothing else.
C10_OrderedStatesSummaryAfterDecision ==
    [][\A r \in Runs :
           /\ InOrder(r)
           /\ (pc[r] # "failed" /\ StateIndex(pc[r]) >= 6) => Persisted(r)
           /\ Decided(r) =>
                  NewWrites(r) \subseteq {RunFile(runId[r], "summary.json"),
                                          RunFile(runId[r], "summary.md"),
                                          LatestRunFile}
           /\ (Decided(r) /\ pc'[r] = "done") =>
                  {RunFile(runId[r], "summary.json"),
                   RunFile(runId[r], "summary.md")} \subseteq Written(r)]_vars

\* A run has passed every state and is complete, having promoted.
C10_Witness ==
    \E r \in Runs :
        /\ pc[r] = "done"
        /\ promotion[r].promoted
        /\ written[r][Len(written[r])] = LatestRunFile
        /\ written[r][Len(written[r]) - 1] = RunFile(runId[r], "summary.md")

\* A sequence is the beginning of another.
IsPrefix(a, b) == Len(a) <= Len(b) /\ SubSeq(b, 1, Len(a)) = a

\* C11: a failure at any statement of run_pipeline aborts the run: the
\* exception leaves run_pipeline without a summary, the failed run takes no
\* further step (it writes nothing more: no promotion, no summary, no
\* latest-run update) and is never resumed, and no step of any run removes
\* a directory or a file written before.
C11_FailureAbortsRun ==
    [][\A r \in Runs :
           /\ pc[r] = "failed" =>
                  /\ pc'[r] = "failed"
                  /\ runId'[r] = runId[r]
                  /\ written'[r] = written[r]
           /\ pc'[r] = "failed" =>
                  /\ metrics'[r] = NoMetrics
                  /\ promotion'[r] = NoPromotion
           /\ (pc[r] # "failed" /\ pc'[r] = "failed") =>
                  /\ pc'[r] # "done"
                  /\ prodModel' = prodModel
                  /\ prodMetrics' = prodMetrics
                  /\ latestRun'.state # "json" \/ latestRun' = latestRun
           /\ IsPrefix(written[r], written'[r])
           /\ dirs \subseteq dirs'
           /\ (written'[r] # <<>>) => RunDir(runId'[r]) \in dirs']_vars

C11_Witness ==
    \E r \in Runs, q \in Runs :
        /\ pc[r] = "failed"
        /\ pc[q] = "done"
        /\ latestRun = LatestFile("json", <<RunSummary(q)>>)
        /\ RunDir(runId[r]) \in dirs
        /\ ProductionModel \in Written(r)
        /\ LatestRunFile \notin Written(r)

\* C19: latest_run.json, whenever it exists, holds the summary of a run
\* that completed, and a run that fails leaves it as it was.
C19_LatestRunIsCompletedSummary ==
    /\ [](latestRun.state # "absent" =>
              /\ latestRun.state = "json"
              /\ \E r \in Runs :
                     pc[r] = "done" /\ latestRun.summary = <<RunSummary(r)>>)
    /\ [][\A r \in Runs :
               (pc[r] # "failed" /\ pc'[r] = "failed") => latestRun' = latestRun]_vars

\* The strings of i blanks.
RECURSIVE Blanks(_)
Blanks(i) == IF i = 0 THEN <<>> ELSE <<Space>> \o Blanks(i - 1)

\* A header value of the form "Bearer <token>", blanks around the token
\* allowed.
IsBearerOf(value, token) ==
    \E i \in 0..Len(value), j \in 0..Len(value) :
        value = Bearer \o Blanks(i) \o token \o Blanks(j)

\* The request the step handles, if the step is a request that is answered
\* or that starts a run.
Handled(r) == http' # http /\ http'.run = r

\* C14: with a bearer token configured, a request of POST /train starts
\* run_pipeline only if its Authorization header is "Bearer <token>" with
\* the configured token; without a configured token every request starts
\* run_pipeline.
C14_TrainRequiresBearerToken ==
    [][/\ \A r \in Runs :
              (pc[r] = "idle" /\ pc'[r] # "idle") =>
                  /\ Handled(r)
                  /\ http'.status = Returns
                  /\ \/ http'.token_required = <<>>
                     \/ /\ http'.authorization.present
                        /\ IsBearerOf(http'.authorization.value, http'.token_required)
       /\ (http' # http /\ http'.token_required = <<>>) =>
              /\ http'.run \in Runs
              /\ pc[http'.run] = "idle"
              /\ pc'[http'.run] = "ensure_dir"
       /\ (http' # http /\ http'.run = 0) => pc' = pc]_vars

C14_Witness ==
    /\ http.token_required = <<116>>
    /\ http.authorization.value = Bearer \o <<Space, 116, Space>>
    /\ http.run = NumRuns
    /\ pc[NumRuns] = "load_dataset"
    /\ pc[1] # "idle"

\* C15: with a bearer token configured, a request without a credential is
\* answered 401, and a request whose credential is not of the form
\* "Bearer <token>" or whose token differs is answered 403.
C15_MalformedIsForbidden ==
    [][(http' # http /\ http'.token_required # <<>>) =>
           LET header == http'.authorization
           IN  /\ ~header.present => http'.status = Unauthorized
               /\ (header.present /\ header.value # <<>>
                   /\ ~IsBearerOf(header.value, http'.token_required)) =>
                      http'.status = Forbidden]_vars

\* C16: merging the same override once more changes nothing:
\* deep_merge(deep_merge(base, override), override) = deep_merge(base, override).
C16_MergeIdempotent ==
    (again # <<>>) => (again = out)

C16_Witness ==
    /\ again # <<>>
    /\ again = out
    /\ out[1] # base
    /\ out[1] # override
    /\ \E key \in DOMAIN base \cap DOMAIN override :
           /\ IsDict(base[key])
           /\ IsDict(override[key])
           /\ out[1][key] # base[key]
           /\ out[1][key] # override[key]

\* What the merge of two mappings has to be, level by level.
RECURSIVE MergedAsSpecified(_, _, _)
MergedAsSpecified(b, o, m) ==
    /\ DOMAIN m = DOMAIN b \cup DOMAIN o
    /\ \A key \in DOMAIN m :
           IF key \notin DOMAIN o
           THEN m[key] = b[key]
           ELSE IF key \in DOMAIN b /\ IsDict(b[key]) /\ IsDict(o[key])
                THEN /\ IsDict(m[key])
                     /\ MergedAsSpecified(b[key].items, o[key].items, m[key].items)
                ELSE m[key] = o[key]

\* C17: at every level deep_merge keeps the value of a key that only base
\* has, merges the two values of a key that is a mapping on both sides, and
\* takes the override value of every other key of the override.
C17_MergeKeepsDefaults ==
    (out # <<>>) => MergedAsSpecified(base, override, out[1])

C17_Witness ==
    /\ out # <<>>
    /\ DOMAIN base = Keys
    /\ DOMAIN override = Keys
    /\ IsDict(base["api"]) /\ IsDict(override["api"])
    /\ DOMAIN base["api"].items = Keys
    /\ DOMAIN override["api"].items = {"hpo"}
    /\ base["api"].items["hpo"] # override["api"].items["hpo"]
    /\ out[1]["api"].items["api"] = base["api"].items["api"]
    /\ out[1]["api"].items["hpo"] = override["api"].items["hpo"]
    /\ IsDict(base["hpo"]) /\ ~IsDict(override["hpo"])
    /\ out[1]["hpo"] = override["hpo"]

\* C18: the record maybe_promote returns says promoted exactly when the
\* call wrote the production slot, and the previous accuracy it reports is
\* the accuracy the slot held right before the call replaced it.
C18_RecordReportsReplacedAccuracy ==
    /\ [](\A r \in Runs :
              Decided(r) =>
                  (promotion[r].promoted <=> ProductionMetrics \in Written(r)))
    /\ [][\A r \in Runs :
               (pc[r] = "open_prod_metrics" /\ pc'[r] = "dump_prod_metrics") =>
                   /\ prodMetrics.state # "truncated"
                   /\ promotion[r].previous_accuracy = PreviousAccuracy(prodMetrics)]_vars

\* C12: an event whose run has completed never triggers another run,
\* whatever the polls and the stops and restarts of the watcher in between.
C12_AtMostOneRunPerEvent ==
    \A r1 \in Runs, r2 \in Runs :
        (r1 < r2 /\ triggeredBy[r1] # NoUid /\ triggeredBy[r1] = triggeredBy[r2]) =>
            pc[r1] # "done"

\* C13: a failure inside a poll cycle never ends the watcher: from the
\* except clause it reaches the next poll, its process never stops, and
\* seen_ids holds only events whose run completed, so that the event whose
\* poll failed is still triggered when a later poll finds it in its window.
C13_WatcherSurvivesFailures ==
    /\ (wpc = "except") ~> (wpc = "poll")
    /\ [][wpc # "stopped" => wpc' # "stopped"]_vars
    /\ [](\A uid \in seen_ids :
              \E r \in Runs : triggeredBy[r] = uid /\ pc[r] = "done")
    /\ [][(/\ wpc = "for_event"
           /\ idx <= Len(CalendarEvents)
           /\ TitleMatches(CalendarEvents[idx])
           /\ InWindow(CalendarEvents[idx], pollNow)
           /\ \A r \in Runs : triggeredBy[r] = CalendarEvents[idx].uid => pc[r] = "failed"
           /\ <<wpc, idx>>' # <<wpc, idx>>) =>
              /\ wpc' = "run_pipeline"
              /\ \E r \in Runs :
                     /\ pc[r] = "idle"
                     /\ pc'[r] = "ensure_dir"
                     /\ triggeredBy'[r] = CalendarEvents[idx].uid]_vars

C13_Witness ==
    \E r1 \in Runs, r2 \in Runs :
        /\ r1 < r2
        /\ pc[r1] = "failed"
        /\ triggeredBy[r1] # NoUid
        /\ triggeredBy[r2] = triggeredBy[r1]
        /\ pc[r2] = "done"
        /\ triggeredBy[r2] \in seen_ids
        /\ wpc = "sleep"

\* Two characters are the same letter, whatever their case.
SameLetter(a, b) ==
    \/ a = b
    \/ a \in 65..90 /\ b = a + 32
    \/ b \in 65..90 /\ a = b + 32

\* The title holds the keyword, case-insensitively.
HoldsKeyword(title, word) ==
    \E i \in 0..(Len(title) - Len(word)) :
        \A j \in 1..Len(word) : SameLetter(title[i + j], word[j])

\* The event the step calls run_pipeline for, if it calls it.
Triggers(event, r) ==
    /\ triggeredBy[r] = NoUid
    /\ triggeredBy'[r] = event.uid
    /\ pc[r] = "idle"
    /\ pc'[r] = "ensure_dir"

\* C20: the watcher calls run_pipeline for an event only if its title holds
\* the keyword case-insensitively and its start lies in [now, now +
\* lookahead] at the now of the poll, and only if its identifier is not in
\* seen_ids; when the loop of a poll reaches such an event it calls
\* run_pipeline for it once and does not pass it over.
C20_TriggersWhenReached ==
    [][/\ \A r \in Runs :
              triggeredBy'[r] # triggeredBy[r] =>
                  /\ wpc = "for_event" /\ idx \in 1..Len(CalendarEvents)
                  /\ wpc' = "run_pipeline" /\ idx' = idx
                  /\ Triggers(CalendarEvents[idx], r)
                  /\ \A q \in Runs \ {r} : triggeredBy'[q] = triggeredBy[q] /\ pc'[q] = pc[q]
                  /\ HoldsKeyword(CalendarEvents[idx].name, EventKeyword)
                  /\ pollNow <= CalendarEvents[idx].start_dt
                  /\ CalendarEvents[idx].start_dt <= pollNow + 60 * LookaheadMinutes
                  /\ CalendarEvents[idx].uid \notin seen_ids
       /\ (wpc = "for_event" /\ wpc' = "for_event" /\ idx' = idx + 1) =>
              \/ ~HoldsKeyword(CalendarEvents[idx].name, EventKeyword)
              \/ pollNow > CalendarEvents[idx].start_dt
              \/ CalendarEvents[idx].start_dt > pollNow + 60 * LookaheadMinutes
              \/ CalendarEvents[idx].uid \in seen_ids
       /\ (wpc = "for_event" /\ wpc' = "sleep") => idx > Len(CalendarEvents)]_vars

C20_Witness ==
    /\ wpc = "run_pipeline"
    /\ CalendarEvents[idx].uid = "late"
    /\ pollNow = StartClock + 1
    /\ triggeredBy[NumRuns] = "late"
    /\ pc[NumRuns] = "ensure_dir"
    /\ "weekly" \in seen_ids

\* C20, as stated: every event that matches at the now of a poll has
\* triggered a run by the end of that poll.
C20_EveryMatchTriggersInItsPoll ==
    [][(idx > 0 /\ wpc \in {"for_event", "except"} /\ wpc' = "sleep") =>
           \A i \in 1..Len(CalendarEvents) :
               (/\ HoldsKeyword(CalendarEvents[i].name, EventKeyword)
                /\ pollNow <= CalendarEvents[i].start_dt
                /\ CalendarEvents[i].start_dt <= pollNow + 60 * LookaheadMinutes) =>
                   \E r \in Runs : triggeredBy[r] = CalendarEvents[i].uid]_vars

\* An explicit parameter grid is configured: hpo.param_grid has an item.
ExplicitGrid ==
    /\ config.param_grid.present
    /\ ~config.param_grid.null
    /\ Len(config.param_grid.items) > 0

\* hpo.enabled is true or left to its default.
SearchEnabled == ~config.enabled.present \/ config.enabled.value

\* The supported tag model.type names in some spelling, or <<>> if none.
ModelTag ==
    IF config.model_type = Option(TRUE, Svm) THEN <<>>
    ELSE IF config.model_type = Option(TRUE, LogisticRegression) THEN LogisticRegression
         ELSE RandomForest

\* The configured parameter names, namespaced to the estimator stage.
NamespacedNames ==
    {IF StartsWith(config.param_grid.items[i].name, ModelPrefix)
     THEN config.param_grid.items[i].name
     ELSE ModelPrefix \o config.param_grid.items[i].name :
        i \in 1..Len(config.param_grid.items)}

\* C21: when train_model returns with the search enabled, the report's
\* used_default_grid is true exactly when no explicit grid is configured,
\* and then the grid searched is the default grid of the model type; it is
\* false exactly when the configured grid is searched.  With the search
\* disabled the report is exactly {enabled: false}.  An unsupported model
\* type never returns a report: the call raises ValueError.
C21_ReportTellsWhichGrid ==
    /\ trained.status = "returned" /\ SearchEnabled =>
          /\ trained.report.enabled
          /\ "used_default_grid" \in trained.report.fields
          /\ trained.report.used_default_grid <=> ~ExplicitGrid
          /\ ~ExplicitGrid =>
                /\ trained.grid = default_param_grid(ModelTag)
                /\ trained.grid # NoGrid
          /\ ExplicitGrid => DOMAIN trained.grid = NamespacedNames
          /\ DOMAIN trained.report.best_params = DOMAIN trained.grid
    /\ trained.status = "returned" /\ ~SearchEnabled =>
          trained.report = Report({"enabled"}, FALSE, FALSE, 0, 0, NoGrid)
    /\ ModelTag = <<>> => trained.status \in {"none", "ValueError"}

\* train_model has returned from a search over the default grid of
\* logistic_regression, no grid being configured.
C21_Witness ==
    /\ trained.status = "returned"
    /\ SearchEnabled
    /\ ~ExplicitGrid
    /\ ModelTag = LogisticRegression
    /\ trained.report.used_default_grid

RECURSIVE Reach(_, _)
\* The objects reached from the object at an address: itself and the
\* nested mappings, at any depth.
Reach(h, address) ==
    {address} \cup
    UNION {Reach(h, h[address][key].value) :
              key \in {k \in DOMAIN h[address] : h[address][k].ref}}

RECURSIVE ValueAt(_, _)
\* The mapping read through the object at an address.
ValueAt(h, address) ==
    [key \in DOMAIN h[address] |->
        IF h[address][key].ref
        THEN Dict(ValueAt(h, h[address][key].value))
        ELSE Scalar(h[address][key].value)]

ResolvedRuns == {r \in Runs : resolved[r].config # 0}

\* C22: a configuration load_config returned shares no object with
\* DEFAULT_CONFIG or with the configuration of another run, at any depth;
\* and deep_merge has modified neither its base (the defaults still read as
\* they did) nor its override (the parsed document still reads as parsed).
C22_ResolvedConfigIsIndependentCopy ==
    /\ \A r \in ResolvedRuns :
          /\ Reach(heap, resolved[r].config) \cap Reach(heap, DEFAULT_CONFIG) = {}
          /\ \A q \in ResolvedRuns \ {r} :
                Reach(heap, resolved[r].config) \cap Reach(heap, resolved[q].config) = {}
    /\ ValueAt(heap, DEFAULT_CONFIG) = ValueAt(DefaultHeap, DEFAULT_CONFIG)
    /\ \A r \in ResolvedRuns :
          ValueAt(heap, resolved[r].loaded) = resolved[r].document

====
